---- MODULE Spec2Model ----
(***************************************************************************)
(* Model of the matching functions of veetility                            *)
(* (src/veetility/utility_functions.py, class UtilityFunctions):           *)
(*   - best_fuzzy_match with write_json / read_json: runs over a persisted *)
(*     JSON cache file per json_name;                                      *)
(*   - identify_match_multi_cols: membership of the rows of two frames in  *)
(*     each other on a composite key;                                      *)
(*   - match_ads: the exact pass and the fuzzy pass over two frames;       *)
(*   - prepare_string_matching: the normal form of a string.               *)
(*                                                                         *)
(* A Python str is a sequence of one-character strings, a dict is a        *)
(* function whose domain is its key set, a list is a sequence.  A          *)
(* DataFrame is a record of its set of column names and the sequence of    *)
(* its rows, a row being a function from the column names to the cells.    *)
(***************************************************************************)
EXTENDS Integers, Sequences, FiniteSets, TLC

(***************************************************************************)
(* Bounds of the model.                                                    *)
(***************************************************************************)
\* longest list_1 and longest list_2 of a run that has the store to itself
MaxLen1 == 2
MaxLen2 == 2
\* longest list_1 of a run that shares the store with a concurrent run
MaxLenConc == 1

Procs == {1, 2}

\* the strings the lists are drawn from
EmptyStr == <<>>
NoneStr == <<"N", "o", "n", "e">>
Strs1 == {EmptyStr, <<"a">>, <<"a", "b">>}
Strs2 == {EmptyStr, <<"a">>, <<"b">>}
ConcStrs == {<<"a">>, <<"a", "b">>}

\* thresholds of the runs (fuzz.ratio of "ab" with "a" or with "b" is 67)
Thresholds == {60, 70}

NoStore == "NoStore"
Namespaces == {"ads", NoStore}

SeqsUpTo(S, n) == UNION {[1..k -> S] : k \in 0..n}

EmptyDict == << >>

\* the content of a cache file: no file, a file json.load rejects, or a dict
Absent == [kind |-> "absent", dict |-> EmptyDict]
Corrupt == [kind |-> "corrupt", dict |-> EmptyDict]
DictFile(d) == [kind |-> "dict", dict |-> d]

\* a null cell (NaN or None): what pd.isna is true of, and what == finds
\* equal to nothing; the token it holds is no character
NaN == <<"NaN">>

\* a DataFrame with no column and no row
EmptyFrame == [cols |-> {}, rows |-> <<>>]

\* an optional argument: left at its default None, or given
NoneArg == [none |-> TRUE, val |-> <<>>]
Given(v) == [none |-> FALSE, val |-> v]

\* the objects of a caller that has passed nothing yet
NoObjects == [df_1 |-> EmptyFrame, df_2 |-> EmptyFrame, cols_to_merge |-> NoneArg]

\* the arguments and the local variables of match_ads before a call
NoArgs ==
    [df_1 |-> EmptyFrame, df_2 |-> EmptyFrame, df_1_exact_col |-> "",
     df_2_exact_col |-> "", df_1_fuzzy_col |-> NoneArg, df_2_fuzzy_col |-> NoneArg,
     is_exact_col_link |-> TRUE, cols_to_merge |-> NoneArg, pickle_name |-> "NoStore"]
NoLocals ==
    [args |-> NoArgs, df_1 |-> EmptyFrame, df_2 |-> EmptyFrame,
     cols_to_merge |-> <<>>, df_1_fuzzy_col |-> "", df_2_fuzzy_col |-> "",
     df_1_match |-> EmptyFrame, df_1_no_match |-> EmptyFrame, ncompare |-> 0]

VARIABLES
    store,            \* json_name -> content of best_match_dict_<json_name>.json
    pc,               \* per run: "idle", "load", "loop", "save", "returned", "raised"
    list_1,           \* per run: argument list_1
    list_2,           \* per run: argument list_2
    threshold,        \* per run: argument threshold
    json_name,        \* per run: argument json_name
    stored_best_dict, \* per run: the loaded cache
    best_match_dict,  \* per run: the mapping being built and returned
    i,                \* per run: number of strings of list_1 processed
    nratio,           \* per run: number of fuzz.ratio calls made by this call
    again,            \* per run: this call repeats the previous call's arguments
    prev_result,      \* per run: what the previous call returned (when again)
    err,              \* per run: the exception raised within the call, "" if none
    cache_seen,       \* per run: what lines 296-298 found: "" before they ran,
                      \*          "nostore", "absent", "corrupt" or "dict"
    nread,            \* per run: number of read_json calls made by this call
    nwrite,           \* per run: number of write_json calls made by this call
    raced             \* per run: a run on the same json_name, still holding its
                      \*          result, saved while this one was between its
                      \*          load and its save

fuzzyVars == <<store, pc, list_1, list_2, threshold, json_name, stored_best_dict,
               best_match_dict, i, nratio, again, prev_result, err, cache_seen,
               nread, nwrite, raced>>

\* a call of identify_match_multi_cols
VARIABLES
    match_pc,            \* "idle", "df1" (before line 260), "df2" (before line
                         \* 261), "returned", "raised"
    df_1,                \* the frame passed as df_1, changed in place
    df_2,                \* the frame passed as df_2, changed in place
    df_1_cols_to_match,  \* argument
    df_2_cols_to_match,  \* argument
    exclude_values,      \* the list after lines 246-247
    match_err,           \* the exception raised within the call, "" if none
    ncompare,            \* number of cell comparisons (line 253) evaluated
    probes_columns       \* the installed pandas: how apply probes an empty frame

matchVars == <<match_pc, df_1, df_2, df_1_cols_to_match, df_2_cols_to_match,
               exclude_values, match_err, ncompare, probes_columns>>

\* a call of match_ads
VARIABLES
    ads_pc,              \* position in match_ads
    caller,              \* the objects the caller passed and still holds
    ma,                  \* the local variables of match_ads
    ads_err,             \* the exception raised within the call, "" if none
    report               \* the percentages logged at lines 223-228

adsVars == <<ads_pc, caller, ma, ads_err, report>>

\* applications of prepare_string_matching
VARIABLES
    string,              \* the argument of the first application
    is_url,              \* the argument is_url of every application
    prepared             \* the results so far: of the first application, and
                         \* of the second, which is given the first's result

normVars == <<string, is_url, prepared>>

vars == <<fuzzyVars, matchVars, adsVars, normVars>>

(***************************************************************************)
(* fuzz.ratio: 100 for equal strings, 0 when either is empty, otherwise    *)
(* round(100 * 2*M / T) with M the matched characters and T the total      *)
(* length.  M is the longest common subsequence, which is what both of     *)
(* the library's matchers find on strings as short as the model's; no      *)
(* quotient 200*M/T with T <= 8 ends in .5, so rounding half up is         *)
(* Python's round here.                                                    *)
(***************************************************************************)
RECURSIVE LCSLen(_, _)
LCSLen(s, t) ==
    IF s = <<>> \/ t = <<>> THEN 0
    ELSE IF Head(s) = Head(t) THEN 1 + LCSLen(Tail(s), Tail(t))
    ELSE LET a == LCSLen(Tail(s), t)
             b == LCSLen(s, Tail(t))
         IN IF a >= b THEN a ELSE b

fuzz_ratio(s1, s2) ==
    IF s1 = s2 THEN 100
    ELSE IF Len(s1) = 0 \/ Len(s2) = 0 THEN 0
    ELSE (400 * LCSLen(s1, s2) + (Len(s1) + Len(s2))) \div (2 * (Len(s1) + Len(s2)))

InList(s, l) == \E k \in 1..Len(l) : l[k] = s

\* dict[key] = value
Put(d, k, v) == [x \in DOMAIN d \cup {k} |-> IF x = k THEN v ELSE d[x]]

\* fault variant of Clamp: the comparison of line 321 turned round
Clamp_Reversed(score, t) == IF score > t THEN 0 ELSE score

\* lines 321-322: a score below the threshold counts as 0
Clamp(score, t) == IF score < t THEN 0 ELSE score

\* lines 318-323: the clamped score of every string of list_2, in list_2 order
\* (a repeated string_2 overwrites its own entry with the same score and keeps
\* the position of its first insertion)
temp_match_dict(string_1, l2, t) ==
    [k \in 1..Len(l2) |-> Clamp(fuzz_ratio(string_1, l2[k]), t)]

MaxScore(scores) ==
    CHOOSE m \in {scores[k] : k \in 1..Len(scores)} :
        \A k \in 1..Len(scores) : scores[k] <= m

\* line 332: max(items, key=score) keeps the first item with the greatest score
best_match(scores, l2) ==
    l2[CHOOSE k \in 1..Len(l2) :
           /\ scores[k] = MaxScore(scores)
           /\ \A j \in 1..(k - 1) : scores[j] # MaxScore(scores)]

\* the scoring branch of the loop body, lines 316-333
Scored(string_1, l2, t) ==
    IF Len(l2) = 0
        THEN [raise |-> TRUE, val |-> NoneStr, n |-> 0]
    ELSE LET scores == temp_match_dict(string_1, l2, t)
         IN IF MaxScore(scores) = 0
                THEN [raise |-> FALSE, val |-> NoneStr, n |-> Len(l2)]
                ELSE [raise |-> FALSE, val |-> best_match(scores, l2), n |-> Len(l2)]

\* fault variant of Resolve: the stored dictionary consulted before list_2
Resolve_CacheFirst(string_1, l2, t, stored) ==
    IF string_1 = EmptyStr
        THEN [raise |-> FALSE, val |-> NoneStr, n |-> 0]
    ELSE IF string_1 \in DOMAIN stored
        THEN [raise |-> FALSE, val |-> stored[string_1], n |-> 0]
    ELSE IF InList(string_1, l2)
        THEN [raise |-> FALSE, val |-> string_1, n |-> 0]
    ELSE Scored(string_1, l2, t)

\* fault variant of Resolve: list_2 consulted before the test for ''
Resolve_ExactFirst(string_1, l2, t, stored) ==
    IF InList(string_1, l2)
        THEN [raise |-> FALSE, val |-> string_1, n |-> 0]
    ELSE IF string_1 = EmptyStr
        THEN [raise |-> FALSE, val |-> NoneStr, n |-> 0]
    ELSE IF string_1 \in DOMAIN stored
        THEN [raise |-> FALSE, val |-> stored[string_1], n |-> 0]
    ELSE Scored(string_1, l2, t)

\* fault variant of Resolve: the stored dictionary never consulted
Resolve_NoCache(string_1, l2, t, stored) ==
    IF string_1 = EmptyStr
        THEN [raise |-> FALSE, val |-> NoneStr, n |-> 0]
    ELSE IF InList(string_1, l2)
        THEN [raise |-> FALSE, val |-> string_1, n |-> 0]
    ELSE Scored(string_1, l2, t)

(***************************************************************************)
(* lines 303-333, one iteration of the for loop: what string_1 resolves    *)
(* to, how many fuzz.ratio calls that took, or the ValueError of max() on  *)
(* an empty temp_match_dict.  The key written at line 304 is ''.           *)
(***************************************************************************)
Resolve(string_1, l2, t, stored) ==
    IF string_1 = EmptyStr
        THEN [raise |-> FALSE, val |-> NoneStr, n |-> 0]
    ELSE IF InList(string_1, l2)
        THEN [raise |-> FALSE, val |-> string_1, n |-> 0]
    ELSE IF string_1 \in DOMAIN stored
        THEN [raise |-> FALSE, val |-> stored[string_1], n |-> 0]
    ELSE Scored(string_1, l2, t)

\* lines 301-333, the whole for loop from the dict d: the mapping it builds,
\* or the exception that leaves it
RECURSIVE ForLoop(_, _, _, _, _)
ForLoop(l1, l2, t, stored, d) ==
    IF l1 = <<>> THEN [raise |-> FALSE, dict |-> d]
    ELSE LET r == Resolve(Head(l1), l2, t, stored)
         IN IF r.raise THEN [raise |-> TRUE, dict |-> d]
            ELSE ForLoop(Tail(l1), l2, t, stored, Put(d, Head(l1), r.val))

(***************************************************************************)
(* The runs.                                                               *)
(***************************************************************************)
\* no run of best_fuzzy_match in progress
IdleRuns ==
    \* a file under the sentinel's own name may exist: it is never the code's
    /\ store = [ns \in Namespaces |->
                  IF ns = NoStore THEN DictFile(Put(EmptyDict, <<"a", "b">>, <<"b">>))
                  ELSE Absent]
    /\ pc = [p \in Procs |-> "idle"]
    /\ list_1 = [p \in Procs |-> <<>>]
    /\ list_2 = [p \in Procs |-> <<>>]
    /\ threshold = [p \in Procs |-> 0]
    /\ json_name = [p \in Procs |-> NoStore]
    /\ stored_best_dict = [p \in Procs |-> EmptyDict]
    /\ best_match_dict = [p \in Procs |-> EmptyDict]
    /\ i = [p \in Procs |-> 0]
    /\ nratio = [p \in Procs |-> 0]
    /\ again = [p \in Procs |-> FALSE]
    /\ prev_result = [p \in Procs |-> EmptyDict]
    /\ err = [p \in Procs |-> ""]
    /\ cache_seen = [p \in Procs |-> ""]
    /\ nread = [p \in Procs |-> 0]
    /\ nwrite = [p \in Procs |-> 0]
    /\ raced = [p \in Procs |-> FALSE]

\* no call of identify_match_multi_cols in progress
IdleMatch ==
    /\ match_pc = "idle"
    /\ df_1 = EmptyFrame
    /\ df_2 = EmptyFrame
    /\ df_1_cols_to_match = <<>>
    /\ df_2_cols_to_match = <<>>
    /\ exclude_values = <<>>
    /\ match_err = ""
    /\ ncompare = 0
    /\ probes_columns = TRUE

\* no call of match_ads in progress
IdleAds ==
    /\ ads_pc = "idle"
    /\ caller = NoObjects
    /\ ma = NoLocals
    /\ ads_err = ""
    /\ report = <<>>

\* no application of prepare_string_matching asked for
IdleNorm ==
    /\ string = EmptyStr
    /\ is_url = FALSE
    /\ prepared = <<>>

Init == IdleRuns /\ IdleMatch /\ IdleAds /\ IdleNorm

Ended(p) == pc[p] \in {"returned", "raised"}

\* lines 287-294: entry of best_fuzzy_match, both dicts empty
Enter(p, l1, l2, t, ns) ==
    /\ pc' = [pc EXCEPT ![p] = "load"]
    /\ list_1' = [list_1 EXCEPT ![p] = l1]
    /\ list_2' = [list_2 EXCEPT ![p] = l2]
    /\ threshold' = [threshold EXCEPT ![p] = t]
    /\ json_name' = [json_name EXCEPT ![p] = ns]
    /\ stored_best_dict' = [stored_best_dict EXCEPT ![p] = EmptyDict]
    /\ best_match_dict' = [best_match_dict EXCEPT ![p] = EmptyDict]
    /\ i' = [i EXCEPT ![p] = 0]
    /\ nratio' = [nratio EXCEPT ![p] = 0]
    /\ err' = [err EXCEPT ![p] = ""]
    /\ cache_seen' = [cache_seen EXCEPT ![p] = ""]
    /\ nread' = [nread EXCEPT ![p] = 0]
    /\ nwrite' = [nwrite EXCEPT ![p] = 0]
    /\ raced' = [raced EXCEPT ![p] = FALSE]
    /\ UNCHANGED store

\* a caller calls best_fuzzy_match with arguments of its choice
Call(p, lists1, lists2, nss) ==
    /\ pc[p] = "idle"
    /\ \E l1 \in lists1, l2 \in lists2, t \in Thresholds, ns \in nss :
           Enter(p, l1, l2, t, ns)
    /\ again' = [again EXCEPT ![p] = FALSE]
    /\ prev_result' = [prev_result EXCEPT ![p] = EmptyDict]
    /\ UNCHANGED <<matchVars, adsVars, normVars>>

\* a caller repeats the call that has just returned, with identical arguments
CallAgain(p) ==
    /\ pc[p] = "returned"
    /\ ~again[p]
    /\ Enter(p, list_1[p], list_2[p], threshold[p], json_name[p])
    /\ again' = [again EXCEPT ![p] = TRUE]
    /\ prev_result' = [prev_result EXCEPT ![p] = best_match_dict[p]]
    /\ UNCHANGED <<matchVars, adsVars, normVars>>

AfterLoad(p) == IF Len(list_1[p]) = 0 THEN "save" ELSE "loop"

\* fault variant of UsesStore: the sentinel not recognised
UsesStore_Always(ns) == TRUE

\* lines 296 and 335: the cache file is used unless json_name is 'NoStore'
UsesStore(ns) == ns # NoStore

\* read_json, line 889: json.load gives the dict the file holds and raises
\* on a file that is not JSON
read_json(file) ==
    IF file.kind = "dict" THEN [raise |-> FALSE, dict |-> file.dict]
    ELSE [raise |-> TRUE, dict |-> EmptyDict]

\* lines 296-299: the cache is read when json_name is not 'NoStore' and the
\* file exists; nothing catches what read_json raises
Load(p) ==
    /\ pc[p] = "load"
    /\ IF UsesStore(json_name[p]) /\ store[json_name[p]].kind # "absent"
         THEN LET r == read_json(store[json_name[p]])
              IN /\ nread' = [nread EXCEPT ![p] = @ + 1]
                 /\ cache_seen' = [cache_seen EXCEPT ![p] = store[json_name[p]].kind]
                 /\ IF r.raise
                      THEN /\ pc' = [pc EXCEPT ![p] = "raised"]
                           /\ err' = [err EXCEPT ![p] = "JSONDecodeError"]
                           /\ UNCHANGED stored_best_dict
                      ELSE /\ pc' = [pc EXCEPT ![p] = AfterLoad(p)]
                           /\ stored_best_dict' = [stored_best_dict EXCEPT ![p] = r.dict]
                           /\ UNCHANGED err
         ELSE /\ pc' = [pc EXCEPT ![p] = AfterLoad(p)]
              /\ cache_seen' = [cache_seen EXCEPT ![p] =
                                    IF UsesStore(json_name[p]) THEN "absent" ELSE "nostore"]
              /\ UNCHANGED <<stored_best_dict, err, nread>>
    /\ UNCHANGED <<store, list_1, list_2, threshold, json_name, best_match_dict,
                   i, nratio, again, prev_result, nwrite, raced>>
    /\ UNCHANGED <<matchVars, adsVars, normVars>>

\* fault variant of LoopStep: the cache file rewritten in every iteration
LoopStep_WriteThrough(p) ==
    /\ pc[p] = "loop"
    /\ i[p] < Len(list_1[p])
    /\ LET string_1 == list_1[p][i[p] + 1]
           r == Resolve(string_1, list_2[p], threshold[p], stored_best_dict[p])
       IN IF r.raise
            THEN /\ pc' = [pc EXCEPT ![p] = "raised"]
                 /\ err' = [err EXCEPT ![p] = "ValueError"]
                 /\ UNCHANGED <<best_match_dict, i, nratio, store, nwrite>>
            ELSE /\ UNCHANGED err
                 /\ best_match_dict' =
                        [best_match_dict EXCEPT ![p] = Put(@, string_1, r.val)]
                 /\ i' = [i EXCEPT ![p] = @ + 1]
                 /\ nratio' = [nratio EXCEPT ![p] = @ + r.n]
                 /\ pc' = [pc EXCEPT ![p] =
                              IF i[p] + 1 = Len(list_1[p]) THEN "save" ELSE "loop"]
                 /\ IF UsesStore(json_name[p])
                      THEN /\ store' = [store EXCEPT ![json_name[p]] =
                                            DictFile(Put(best_match_dict[p],
                                                         string_1, r.val))]
                           /\ nwrite' = [nwrite EXCEPT ![p] = @ + 1]
                      ELSE UNCHANGED <<store, nwrite>>
    /\ UNCHANGED <<list_1, list_2, threshold, json_name, stored_best_dict,
                   again, prev_result, cache_seen, nread, raced>>
    /\ UNCHANGED <<matchVars, adsVars, normVars>>

\* lines 301-333: one iteration of the for loop over list_1
LoopStep(p) ==
    /\ pc[p] = "loop"
    /\ i[p] < Len(list_1[p])
    /\ LET string_1 == list_1[p][i[p] + 1]
           r == Resolve(string_1, list_2[p], threshold[p], stored_best_dict[p])
       IN IF r.raise
            THEN /\ pc' = [pc EXCEPT ![p] = "raised"]
                 /\ err' = [err EXCEPT ![p] = "ValueError"]
                 /\ UNCHANGED <<best_match_dict, i, nratio>>
            ELSE /\ UNCHANGED err
                 /\ best_match_dict' =
                        [best_match_dict EXCEPT ![p] = Put(@, string_1, r.val)]
                 /\ i' = [i EXCEPT ![p] = @ + 1]
                 /\ nratio' = [nratio EXCEPT ![p] = @ + r.n]
                 /\ pc' = [pc EXCEPT ![p] =
                              IF i[p] + 1 = Len(list_1[p]) THEN "save" ELSE "loop"]
    /\ UNCHANGED <<store, list_1, list_2, threshold, json_name, stored_best_dict,
                   again, prev_result, cache_seen, nread, nwrite, raced>>
    /\ UNCHANGED <<matchVars, adsVars, normVars>>

\* the runs on the same json_name that have loaded and not yet saved
InFlight(p) ==
    {q \in Procs \ {p} : pc[q] \in {"loop", "save"} /\ json_name[q] = json_name[p]}

\* fault variant of write_json: the dict given merged into what the file held
write_json_Merge(file, object) ==
    DictFile([x \in DOMAIN file.dict \cup DOMAIN object |->
                 IF x \in DOMAIN object THEN object[x] ELSE file.dict[x]])

\* write_json, lines 864-866: open(..., "w") and json.dump replace whatever
\* the file held by the dict given
write_json(file, object) == DictFile(object)

\* lines 335-340: the cache file is rewritten unless json_name is 'NoStore',
\* and the mapping is returned
Save(p) ==
    /\ pc[p] = "save"
    /\ IF UsesStore(json_name[p])
         THEN /\ store' = [store EXCEPT ![json_name[p]] =
                               write_json(@, best_match_dict[p])]
              /\ nwrite' = [nwrite EXCEPT ![p] = @ + 1]
              /\ raced' = [q \in Procs |-> IF q \in InFlight(p) THEN TRUE ELSE raced[q]]
         ELSE UNCHANGED <<store, nwrite, raced>>
    /\ pc' = [pc EXCEPT ![p] = "returned"]
    /\ UNCHANGED <<list_1, list_2, threshold, json_name, stored_best_dict,
                   best_match_dict, i, nratio, again, prev_result, err,
                   cache_seen, nread>>
    /\ UNCHANGED <<matchVars, adsVars, normVars>>

\* lines 865-866 when the operating system refuses the write: open() raises
\* and the file is as it was, or json.dump raises after open() has truncated
\* it; write_json catches nothing and neither does best_fuzzy_match
SaveFail(p) ==
    /\ pc[p] = "save"
    /\ UsesStore(json_name[p])
    /\ \/ UNCHANGED store
       \/ store' = [store EXCEPT ![json_name[p]] = Corrupt]
    /\ nwrite' = [nwrite EXCEPT ![p] = @ + 1]
    /\ pc' = [pc EXCEPT ![p] = "raised"]
    /\ err' = [err EXCEPT ![p] = "OSError"]
    /\ UNCHANGED <<list_1, list_2, threshold, json_name, stored_best_dict,
                   best_match_dict, i, nratio, again, prev_result, cache_seen,
                   nread, raced>>
    /\ UNCHANGED <<matchVars, adsVars, normVars>>

\* the caller is done with what the call returned or raised
Finish(p) ==
    /\ Ended(p)
    /\ pc' = [pc EXCEPT ![p] = "idle"]
    /\ list_1' = [list_1 EXCEPT ![p] = <<>>]
    /\ list_2' = [list_2 EXCEPT ![p] = <<>>]
    /\ threshold' = [threshold EXCEPT ![p] = 0]
    /\ json_name' = [json_name EXCEPT ![p] = NoStore]
    /\ stored_best_dict' = [stored_best_dict EXCEPT ![p] = EmptyDict]
    /\ best_match_dict' = [best_match_dict EXCEPT ![p] = EmptyDict]
    /\ i' = [i EXCEPT ![p] = 0]
    /\ nratio' = [nratio EXCEPT ![p] = 0]
    /\ again' = [again EXCEPT ![p] = FALSE]
    /\ prev_result' = [prev_result EXCEPT ![p] = EmptyDict]
    /\ err' = [err EXCEPT ![p] = ""]
    /\ cache_seen' = [cache_seen EXCEPT ![p] = ""]
    /\ nread' = [nread EXCEPT ![p] = 0]
    /\ nwrite' = [nwrite EXCEPT ![p] = 0]
    /\ raced' = [q \in Procs |-> FALSE]
    /\ UNCHANGED store
    /\ UNCHANGED <<matchVars, adsVars, normVars>>

\* one run at a time
Next ==
    \/ Call(1, SeqsUpTo(Strs1, MaxLen1), SeqsUpTo(Strs2, MaxLen2), Namespaces)
    \/ CallAgain(1)
    \/ Load(1)
    \/ LoopStep(1)
    \/ Save(1)
    \/ SaveFail(1)
    \/ Finish(1)

Spec == Init /\ [][Next]_vars

\* two runs side by side on the same json_name
NextConc ==
    \E p \in Procs :
        \/ Call(p, SeqsUpTo(ConcStrs, MaxLenConc), {<<<<"b">>>>}, {"ads"})
        \/ Load(p)
        \/ LoopStep(p)
        \/ Save(p)
        \/ SaveFail(p)
        \/ Finish(p)

SpecConc == Init /\ [][NextConc]_vars

(***************************************************************************)
(* identify_match_multi_cols, lines 232-263.                               *)
(***************************************************************************)
\* the most rows of a frame passed to identify_match_multi_cols
MaxRows == 2

\* the frames of the calls: df_1 has the columns A and B, df_2 the columns
\* C and D (as in src/tests/test_identify_match_multi_cols.py)
X == <<"x">>
Y == <<"y">>
Rows1 ==
    {[A |-> X, B |-> Y], [A |-> NaN, B |-> Y], [A |-> NoneStr, B |-> X],
     [A |-> EmptyStr, B |-> X]}
Rows2 ==
    {[C |-> X, D |-> Y], [C |-> X, D |-> X], [C |-> NaN, D |-> Y],
     [C |-> NoneStr, D |-> X]}
Frames(cols, rows, n) == {[cols |-> cols, rows |-> r] : r \in SeqsUpTo(rows, n)}

\* the key lists of the calls: of equal lengths, and of different lengths
KeyLists ==
    {<<<<"A">>, <<"C">>>>, <<<<"A", "B">>, <<"C", "D">>>>, <<<<>>, <<>>>>,
     <<<<"A">>, <<"C", "D">>>>, <<<<"A", "B">>, <<"C">>>>}

\* the argument exclude_values of the calls: left out, or an empty list
ExcludeArgs == {NoneArg, Given(<<>>)}

\* fault variant of DefaultExclude: the sentinel 'None' left out
DefaultExclude_NoSentinel == <<<<"n", "o", "n", "e">>, <<"n", "a", "n">>, EmptyStr>>

\* lines 246-247: the default of exclude_values
DefaultExclude == <<NoneStr, <<"n", "o", "n", "e">>, <<"n", "a", "n">>, EmptyStr>>
ExcludeValues(arg) == IF arg.none THEN DefaultExclude ELSE arg.val

\* pd.isna of a cell
isna(v) == v = NaN

\* == of two cells: a null cell equals nothing, not even a null cell
PdEq(a, b) == ~isna(a) /\ ~isna(b) /\ a = b

\* fault variant of current_condition: the excluded values not looked at
current_condition_NoVeto(target_cell, row_cell, excl) ==
    \/ PdEq(target_cell, row_cell)
    \/ isna(target_cell) /\ isna(row_cell)

\* fault variant of current_condition: a null cell of the row satisfied by
\* every cell of the target
current_condition_NullWild(target_cell, row_cell, excl) ==
    \/ PdEq(target_cell, row_cell) /\ ~InList(row_cell, excl)
    \/ isna(row_cell)

\* fault variant of current_condition: a null cell of the target satisfied
\* by every cell of the row
current_condition_NullTarget(target_cell, row_cell, excl) ==
    \/ PdEq(target_cell, row_cell) /\ ~InList(row_cell, excl)
    \/ isna(target_cell)

\* lines 252-255, for one row of target_df
current_condition(target_cell, row_cell, excl) ==
    \/ PdEq(target_cell, row_cell) /\ ~InList(row_cell, excl)
    \/ isna(target_cell) /\ isna(row_cell)

\* lines 250-256: the for loop from position k with the mask reached so far;
\* n counts the evaluations of line 253.  target_cols[k] past the end of
\* target_cols is an IndexError, a column a frame or the row has not is a
\* KeyError.
RECURSIVE MaskLoop(_, _, _, _, _, _, _, _)
MaskLoop(row, target_df, source_cols, target_cols, excl, k, mask, n) ==
    IF k > Len(source_cols) THEN [err |-> "", mask |-> mask, n |-> n]
    ELSE IF k > Len(target_cols) THEN [err |-> "IndexError", mask |-> mask, n |-> n]
    ELSE IF target_cols[k] \notin target_df.cols \/ source_cols[k] \notin DOMAIN row
        THEN [err |-> "KeyError", mask |-> mask, n |-> n]
    ELSE MaskLoop(row, target_df, source_cols, target_cols, excl, k + 1,
                  [j \in 1..Len(mask) |->
                      mask[j] /\ current_condition(target_df.rows[j][target_cols[k]],
                                                   row[source_cols[k]], excl)],
                  n + 1)

\* fault variant of is_row_in_dataframe: each key position satisfied by a
\* row of its own
is_row_in_dataframe_PerColumn(row, target_df, source_cols, target_cols, excl) ==
    LET r == MaskLoop(row, target_df, source_cols, target_cols, excl, 1,
                      [j \in 1..Len(target_df.rows) |-> TRUE], 0)
    IN [err |-> r.err,
        val |-> \A k \in 1..Len(source_cols) :
                    \E j \in 1..Len(target_df.rows) :
                        current_condition(target_df.rows[j][target_cols[k]],
                                          row[source_cols[k]], excl),
        n |-> r.n]

\* lines 249-258: is_row_in_dataframe, the mask all True at first, and the
\* row in the target when a row of target_df is left under the mask
is_row_in_dataframe(row, target_df, source_cols, target_cols, excl) ==
    LET r == MaskLoop(row, target_df, source_cols, target_cols, excl, 1,
                      [j \in 1..Len(target_df.rows) |-> TRUE], 0)
    IN [err |-> r.err,
        val |-> \E j \in 1..Len(r.mask) : r.mask[j],
        n |-> r.n]

\* source_df.apply(..., axis=1) over the rows left from position k
RECURSIVE ApplyRows(_, _, _, _, _, _, _, _)
ApplyRows(source_df, target_df, source_cols, target_cols, excl, k, col, n) ==
    IF k > Len(source_df.rows) THEN [err |-> "", col |-> col, n |-> n]
    ELSE LET r == is_row_in_dataframe(source_df.rows[k], target_df,
                                      source_cols, target_cols, excl)
         IN IF r.err # "" THEN [err |-> r.err, col |-> col, n |-> n + r.n]
            ELSE ApplyRows(source_df, target_df, source_cols, target_cols, excl,
                           k + 1, Append(col, r.val), n + r.n)

\* the row pandas hands to the function to find out what apply returns on a
\* frame with no row: a row of NaN over the columns, or (older pandas) a row
\* with no column
ProbeRow(source_df, probes) ==
    IF probes THEN [c \in source_df.cols |-> NaN] ELSE << >>

\* the right-hand side of lines 260 and 261 and its assignment to one column.
\* On a frame with no row pandas calls the function once on the probe row and
\* swallows what it raises: apply then returns a copy of the frame, which the
\* assignment to a single column rejects unless the frame has one column.
Apply(source_df, target_df, source_cols, target_cols, excl, probes) ==
    IF Len(source_df.rows) > 0
        THEN ApplyRows(source_df, target_df, source_cols, target_cols, excl,
                       1, <<>>, 0)
    ELSE LET r == is_row_in_dataframe(ProbeRow(source_df, probes), target_df,
                                      source_cols, target_cols, excl)
         IN IF r.err # "" /\ Cardinality(source_df.cols) # 1
                THEN [err |-> "ValueError", col |-> <<>>, n |-> 0]
                ELSE [err |-> "", col |-> <<>>, n |-> 0]

\* df[name] = col
SetColumn(df, name, col) ==
    [cols |-> df.cols \cup {name},
     rows |-> [k \in 1..Len(df.rows) |-> Put(df.rows[k], name, col[k])]]

\* lines 246-263 as a whole: the exception raised if any, the two frames as
\* the call leaves them, and the number of evaluations of line 253
identify_match_multi_cols(d1, d2, cols1, cols2, match_col_name, arg, probes) ==
    LET excl == ExcludeValues(arg)
        a1 == Apply(d1, d2, cols1, cols2, excl, probes)
        n1 == SetColumn(d1, match_col_name \o "_df1?", a1.col)
        a2 == Apply(d2, n1, cols2, cols1, excl, probes)
        n2 == SetColumn(d2, match_col_name \o "_df2?", a2.col)
    IN IF a1.err # "" THEN [err |-> a1.err, df_1 |-> d1, df_2 |-> d2, n |-> a1.n]
       ELSE IF a2.err # "" THEN [err |-> a2.err, df_1 |-> n1, df_2 |-> d2,
                                 n |-> a1.n + a2.n]
       ELSE [err |-> "", df_1 |-> n1, df_2 |-> n2, n |-> a1.n + a2.n]

\* a caller calls identify_match_multi_cols(df_1, df_2, cols1, cols2, 'match',
\* exclude_values); lines 246-247
MatchCall ==
    /\ match_pc = "idle"
    /\ \E d1 \in Frames({"A", "B"}, Rows1, MaxRows),
          d2 \in Frames({"C", "D"}, Rows2, MaxRows),
          keys \in KeyLists, arg \in ExcludeArgs :
          \E probes \in IF Len(d1.rows) = 0 \/ Len(d2.rows) = 0
                            THEN BOOLEAN ELSE {TRUE} :
              /\ df_1' = d1
              /\ df_2' = d2
              /\ df_1_cols_to_match' = keys[1]
              /\ df_2_cols_to_match' = keys[2]
              /\ exclude_values' = ExcludeValues(arg)
              /\ probes_columns' = probes
    /\ match_pc' = "df1"
    /\ match_err' = ""
    /\ ncompare' = 0
    /\ UNCHANGED <<fuzzyVars, adsVars, normVars>>

\* line 260: the flag column of df_1
MatchDf1 ==
    /\ match_pc = "df1"
    /\ LET a == Apply(df_1, df_2, df_1_cols_to_match, df_2_cols_to_match,
                      exclude_values, probes_columns)
       IN /\ ncompare' = ncompare + a.n
          /\ match_err' = a.err
          /\ IF a.err # ""
               THEN /\ match_pc' = "raised"
                    /\ UNCHANGED df_1
               ELSE /\ match_pc' = "df2"
                    /\ df_1' = SetColumn(df_1, "match_df1?", a.col)
    /\ UNCHANGED <<df_2, df_1_cols_to_match, df_2_cols_to_match, exclude_values,
                   probes_columns>>
    /\ UNCHANGED <<fuzzyVars, adsVars, normVars>>

\* lines 261-263: the flag column of df_2, and the return of both frames
MatchDf2 ==
    /\ match_pc = "df2"
    /\ LET a == Apply(df_2, df_1, df_2_cols_to_match, df_1_cols_to_match,
                      exclude_values, probes_columns)
       IN /\ ncompare' = ncompare + a.n
          /\ match_err' = a.err
          /\ IF a.err # ""
               THEN /\ match_pc' = "raised"
                    /\ UNCHANGED df_2
               ELSE /\ match_pc' = "returned"
                    /\ df_2' = SetColumn(df_2, "match_df2?", a.col)
    /\ UNCHANGED <<df_1, df_1_cols_to_match, df_2_cols_to_match, exclude_values,
                   probes_columns>>
    /\ UNCHANGED <<fuzzyVars, adsVars, normVars>>

NextMatch ==
    \/ MatchCall
    \/ MatchDf1
    \/ MatchDf2

SpecMatch == Init /\ [][NextMatch]_vars

(***************************************************************************)
(* prepare_string_matching, lines 73-108.  A character outside ASCII is    *)
(* written by its code point.                                              *)
(***************************************************************************)
\* the most pieces an argument of prepare_string_matching is made of
MaxPieces == 3

EAcute == "U+00E9"
Bei == "U+5317"
Smile == "U+1F60A"
DoubleN == "U+2115"
Http == <<"h", "t", "t", "p", ":", "/", "/">>

\* the pieces of the arguments: letters of both cases, a space, a tab, a
\* question mark, punctuation, an accented letter, a Han character, an emoji
\* and the head of a URL
NormPieces ==
    {<<"a">>, <<"B">>, <<" ">>, <<"\t">>, <<"?">>, <<"!">>, <<EAcute>>,
     <<Bei>>, <<Smile>>, Http}

RECURSIVE Flatten(_)
Flatten(ss) == IF ss = <<>> THEN <<>> ELSE Head(ss) \o Flatten(Tail(ss))

\* a scalar that is no string: the name of its type, then the characters
\* str() writes it with
IntFive == <<"int", "5">>
FloatOneHalf == <<"float", "1", ".", "5">>
BoolTrue == <<"bool", "T", "r", "u", "e">>
Scalars == {IntFive, FloatOneHalf, BoolTrue}
TypeNames == {"int", "float", "bool"}

\* the arguments: null, a string made of pieces, or a scalar that is no
\* string
NormInputs ==
    {NaN} \cup {Flatten(ps) : ps \in SeqsUpTo(NormPieces, MaxPieces)}
          \cup Scalars

\* line 96: str(string), a string as it is and another scalar as it is
\* written
str_of(v) == IF v # <<>> /\ Head(v) \in TypeNames THEN Tail(v) ELSE v

\* \s of the regular expressions
Whitespace == {" ", "\t", "\n"}

\* \w of the regular expressions, among the ASCII characters of the model
WordChars ==
    {"a", "b", "c", "e", "i", "h", "m", "n", "o", "p", "r", "s", "t", "u",
     "x", "B", "N", "T", "1", "5", "_"}

UpperCase == {"B", "N", "T"}

\* lines 24-29: emoji_pattern
Emoji == {Smile}

\* line 96: str.lower()
lower(str) ==
    [k \in 1..Len(str) |-> IF str[k] = "B" THEN "b"
                           ELSE IF str[k] = "N" THEN "n"
                           ELSE IF str[k] = "T" THEN "t" ELSE str[k]]

\* line 99: string.split('?')[0]
RECURSIVE split_question(_)
split_question(str) ==
    IF str = <<>> \/ Head(str) = "?" THEN <<>>
    ELSE <<Head(str)>> \o split_question(Tail(str))

HasPrefix(str, pre) == Len(str) >= Len(pre) /\ SubSeq(str, 1, Len(pre)) = pre

\* the length of the longest run of non-whitespace at the head of str
RECURSIVE NonSpaceRun(_)
NonSpaceRun(str) ==
    IF str = <<>> \/ Head(str) \in Whitespace THEN 0
    ELSE 1 + NonSpaceRun(Tail(str))

\* the length of the match of (https?://\S+)\s at the head of str, 0 when
\* there is none: the scheme, a run of non-whitespace that is not empty, and
\* the whitespace character that ends it
UrlMatchLen(str) ==
    LET scheme == IF HasPrefix(str, <<"h", "t", "t", "p", "s", ":", "/", "/">>) THEN 8
                  ELSE IF HasPrefix(str, Http) THEN 7 ELSE 0
        run == NonSpaceRun(SubSeq(str, scheme + 1, Len(str)))
    IN IF scheme > 0 /\ run > 0 /\ scheme + run < Len(str)
           THEN scheme + run + 1
           ELSE 0

\* line 103: re.sub(r'(https?://\S+)\s', '', string)
RECURSIVE remove_urls(_)
remove_urls(str) ==
    IF str = <<>> THEN <<>>
    ELSE IF UrlMatchLen(str) > 0
        THEN remove_urls(SubSeq(str, UrlMatchLen(str) + 1, Len(str)))
    ELSE <<Head(str)>> \o remove_urls(Tail(str))

\* line 105: emoji_pattern.sub(r'', string)
remove_emoji(str) == LET keep(c) == c \notin Emoji IN SelectSeq(str, keep)

\* line 106: unidecode, which leaves ASCII as it is and writes the accented
\* letter as 'e', the Han character as 'Bei ' and the double-struck capital
\* N (a letter str.lower() has no lower case for) as 'N'
unidecode(str) ==
    Flatten([k \in 1..Len(str) |->
                IF str[k] = EAcute THEN <<"e">>
                ELSE IF str[k] = Bei THEN <<"B", "e", "i", " ">>
                ELSE IF str[k] = DoubleN THEN <<"N">>
                ELSE <<str[k]>>])

\* line 107: re.sub(r'[^\w\s]', '', string)
remove_punctuation(str) ==
    LET keep(c) == c \in WordChars \cup Whitespace IN SelectSeq(str, keep)

\* line 108: string.replace(' ', '')
remove_spaces(str) == LET keep(c) == c # " " IN SelectSeq(str, keep)

\* fault variant of prepare_string_matching: a link treated as a message
prepare_string_matching_NoCut(str, url) ==
    IF isna(str) THEN str
    ELSE remove_spaces(remove_punctuation(unidecode(remove_emoji(
             remove_urls(lower(str_of(str)) \o <<" ">>)))))

\* fault variant of prepare_string_matching: null written out as 'nan'
prepare_string_matching_NullStr(str, url) ==
    LET lowered == IF isna(str) THEN <<"n", "a", "n">> ELSE lower(str_of(str))
        cut == IF url THEN split_question(lowered)
               ELSE remove_urls(lowered \o <<" ">>)
    IN remove_spaces(remove_punctuation(unidecode(remove_emoji(cut))))

\* lines 94-108
prepare_string_matching(str, url) ==
    IF isna(str) THEN str
    ELSE LET lowered == lower(str_of(str))
             cut == IF url THEN split_question(lowered)
                    ELSE remove_urls(lowered \o <<" ">>)
         IN remove_spaces(remove_punctuation(unidecode(remove_emoji(cut))))

\* the arguments of the applications
InitNorm ==
    /\ IdleRuns /\ IdleMatch /\ IdleAds
    /\ string \in NormInputs
    /\ is_url \in BOOLEAN
    /\ prepared = <<>>

\* prepare_string_matching applied to the argument, then to its own result
Prepare ==
    /\ Len(prepared) < 2
    /\ prepared' = Append(prepared,
                          prepare_string_matching(
                              IF prepared = <<>> THEN string ELSE prepared[1], is_url))
    /\ UNCHANGED <<string, is_url>>
    /\ UNCHANGED <<fuzzyVars, matchVars, adsVars>>

NextNorm == Prepare

SpecNorm == InitNorm /\ [][NextNorm]_vars

(***************************************************************************)
(* match_ads, lines 110-230, called with extract_shortcode=False,          *)
(* merge=False and matched_col_name='boosted' on frames whose cells are    *)
(* strings.  The call of best_fuzzy_match at line 199 is a run of          *)
(* process 1.                                                              *)
(***************************************************************************)
\* the most rows of a frame passed to match_ads
MaxAdsRows == 2

\* 'http://x.com/a' and the same link with a query string
UrlPlain == Http \o <<"x", ".", "c", "o", "m", "/", "a">>
UrlUtm == UrlPlain \o <<"?", "u", "t", "m", "=", "1">>

\* the platforms
FB == <<"F", "B">>
IG == <<"I", "G">>

\* a text whose match string is 'None'
NoneText == <<DoubleN, "o", "n", "e">>

\* the rows of the frames: df_1 has a row whose url is that of a row of df_2
\* but for its query string, a row with the same text, which is close to a
\* text of df_2, and another url, and a row whose text gives the match
\* string 'None'; df_2 has the same text on two platforms, and a row whose
\* text gives the match string 'None'.  A url has the match string '' when
\* it is taken for a message.
AdsRows1 ==
    {[url |-> UrlUtm, text |-> <<"a", "b", "e">>, platform |-> FB],
     [url |-> <<"t">>, text |-> <<"a", "b", "e">>, platform |-> FB],
     [url |-> <<"t">>, text |-> NoneText, platform |-> FB]}
AdsRows2 ==
    {[url |-> UrlPlain, text |-> <<"a", "B">>, platform |-> FB],
     [url |-> <<"p">>, text |-> <<"a", "b">>, platform |-> IG],
     [url |-> <<"p">>, text |-> NoneText, platform |-> FB]}
AdsCols == {"url", "text", "platform"}

\* df without the column col
WithoutColumn(df, col) ==
    [cols |-> df.cols \ {col},
     rows |-> [k \in 1..Len(df.rows) |->
                  [c \in df.cols \ {col} |-> df.rows[k][c]]]]

\* the frames passed: with every column, or, for frames of one row at
\* most, with one column absent
AdsFramePairs ==
    LET full == {<<d1, d2>> : d1 \in Frames(AdsCols, AdsRows1, MaxAdsRows),
                            d2 \in Frames(AdsCols, AdsRows2, MaxAdsRows)}
        small == {<<d1, d2>> : d1 \in Frames(AdsCols, AdsRows1, 1),
                             d2 \in Frames(AdsCols, AdsRows2, 1)}
    IN full
       \cup {<<WithoutColumn(fp[1], "text"), fp[2]>> : fp \in small}
       \cup {<<fp[1], WithoutColumn(fp[2], "platform")>> : fp \in small}
       \cup {<<fp[1], WithoutColumn(fp[2], "url")>> : fp \in small}

\* the other arguments: the fuzzy columns named or left out, the exact
\* column a link or not, cols_to_merge given or left out, the cache named
\* or not
AdsFuzzyArgs ==
    {[col |-> Given("text"), link |-> TRUE], [col |-> NoneArg, link |-> TRUE],
     [col |-> Given("text"), link |-> FALSE]}
AdsColsArgs == {NoneArg, Given(<<"platform">>)}
AdsPickleNames == {NoStore, "ads"}

\* the other arguments of a call: the fuzzy columns named, links in the
\* exact column, cols_to_merge left out and no cache, or one of these four
\* otherwise
AdsArgs ==
    {a \in [fz : AdsFuzzyArgs, cm : AdsColsArgs, pn : AdsPickleNames] :
        Cardinality({k \in 1..3 :
                        \/ k = 1 /\ (a.fz.col.none \/ ~a.fz.link)
                        \/ k = 2 /\ ~a.cm.none
                        \/ k = 3 /\ a.pn # NoStore}) <= 1}

\* line 199: the threshold of the fuzzy pass
FuzzyThreshold == 80

\* a column name with both 'matched' and 'df' in it, lines 146-147
MatchedDfCols ==
    {"matched_exact_df1?", "matched_exact_df2?", "matched_fuzzy_df1?",
     "matched_fuzzy_df2?"}

RECURSIVE DropColumns(_, _)
DropColumns(df, cols) ==
    IF cols = {} THEN df
    ELSE LET c == CHOOSE x \in cols : TRUE
         IN DropColumns(WithoutColumn(df, c), cols \ {c})

\* df[name] = value in every row
SetScalar(df, name, value) ==
    SetColumn(df, name, [k \in 1..Len(df.rows) |-> value])

\* df['match_string'] = df[col].apply(lambda x: prepare_string_matching(x, url))
MatchStrings(df, col, url) ==
    SetColumn(df, "match_string",
              [k \in 1..Len(df.rows) |-> prepare_string_matching(df.rows[k][col], url)])

\* fault variant of MapStrings: the match strings left as they are
MapStrings_Keep(df, dict) == df

\* df['match_string'] = df['match_string'].map(dict)
MapStrings(df, dict) ==
    SetColumn(df, "match_string",
              [k \in 1..Len(df.rows) |-> dict[df.rows[k]["match_string"]]])

\* fault variant of RowsWhere: every row kept
RowsWhere_All(df, col, value) == df

\* df[df[col] == value]
RowsWhere(df, col, value) ==
    LET keep(row) == row[col] = value
    IN [cols |-> df.cols, rows |-> SelectSeq(df.rows, keep)]

\* df[col].unique().tolist(): the values in the order of their first row
RECURSIVE Unique(_, _)
Unique(cells, seen) ==
    IF cells = <<>> THEN seen
    ELSE Unique(Tail(cells), IF InList(Head(cells), seen) THEN seen
                             ELSE Append(seen, Head(cells)))
UniqueList(df, col) == Unique([k \in 1..Len(df.rows) |-> df.rows[k][col]], <<>>)

\* df[col].sum() of a column of booleans
RECURSIVE CountTrue(_, _)
CountTrue(rows, col) ==
    IF rows = <<>> THEN 0
    ELSE (IF Head(rows)[col] THEN 1 ELSE 0) + CountTrue(Tail(rows), col)

\* round(df[col].sum()*100/df.shape[0], 2), in hundredths; on a frame with
\* no row the quotient is nan when sum() gives a numpy number
NanPerc == [nan |-> TRUE, val |-> 0]
Perc(df, col) ==
    IF Len(df.rows) = 0 THEN NanPerc
    ELSE [nan |-> FALSE,
          val |-> (2 * 10000 * CountTrue(df.rows, col) + Len(df.rows))
                      \div (2 * Len(df.rows))]

\* fault variant of Concat: the rows of the first frame left out
Concat_Second(a, b) == b

\* line 213: pd.concat([a, b], ignore_index=True) of two frames with the
\* same columns
Concat(a, b) == [cols |-> a.cols \cup b.cols, rows |-> a.rows \o b.rows]

\* fault variant of Boosted: the fuzzy flag left out
Boosted_ExactOnly(df, exact, fuzzy) ==
    SetColumn(df, "boosted", [k \in 1..Len(df.rows) |-> df.rows[k][exact]])

\* lines 216-217: the overall column
Boosted(df, exact, fuzzy) ==
    SetColumn(df, "boosted",
              [k \in 1..Len(df.rows) |-> df.rows[k][exact] \/ df.rows[k][fuzzy]])

\* a caller calls match_ads(df_1, df_2, 'url', 'url', df_1_fuzzy_col=...,
\* df_2_fuzzy_col=..., is_exact_col_link=..., cols_to_merge=...,
\* pickle_name=...)
AdsCall ==
    /\ ads_pc = "idle"
    /\ \E fp \in AdsFramePairs, a \in AdsArgs, probes \in BOOLEAN :
          /\ caller' = [df_1 |-> fp[1], df_2 |-> fp[2], cols_to_merge |-> a.cm]
          /\ ma' = [NoLocals EXCEPT
                        !.args = [df_1 |-> fp[1], df_2 |-> fp[2],
                                  df_1_exact_col |-> "url", df_2_exact_col |-> "url",
                                  df_1_fuzzy_col |-> a.fz.col,
                                  df_2_fuzzy_col |-> a.fz.col,
                                  is_exact_col_link |-> a.fz.link,
                                  cols_to_merge |-> a.cm, pickle_name |-> a.pn]]
          /\ probes_columns' = probes
    /\ ads_pc' = "prepare"
    /\ ads_err' = ""
    /\ report' = <<>>
    /\ UNCHANGED <<match_pc, df_1, df_2, df_1_cols_to_match, df_2_cols_to_match,
                   exclude_values, match_err, ncompare>>
    /\ UNCHANGED <<fuzzyVars, normVars>>

\* lines 146-168: copies of the frames without their old flag columns, the
\* defaults, the match strings of the exact columns, and 'match_string'
\* appended to the list cols_to_merge, which is the caller's own list when
\* the caller gave one
AdsPrepare ==
    /\ ads_pc = "prepare"
    /\ LET a == ma.args
           d1 == DropColumns(a.df_1, a.df_1.cols \cap MatchedDfCols)
           d2 == DropColumns(a.df_2, a.df_2.cols \cap MatchedDfCols)
           cols == IF a.cols_to_merge.none THEN <<"platform">>
                   ELSE a.cols_to_merge.val
       IN IF a.df_1_exact_col \notin d1.cols \/ a.df_2_exact_col \notin d2.cols
            THEN /\ ads_pc' = "raised"
                 /\ ads_err' = "KeyError"
                 /\ UNCHANGED <<ma, caller>>
            ELSE /\ ads_pc' = "exact"
                 /\ ma' = [ma EXCEPT
                            !.df_1 = MatchStrings(d1, a.df_1_exact_col,
                                                  a.is_exact_col_link),
                            !.df_2 = MatchStrings(d2, a.df_2_exact_col,
                                                  a.is_exact_col_link),
                            !.df_1_fuzzy_col = IF a.df_1_fuzzy_col.none
                                                 THEN a.df_1_exact_col
                                                 ELSE a.df_1_fuzzy_col.val,
                            !.df_2_fuzzy_col = IF a.df_1_fuzzy_col.none
                                                 THEN a.df_2_exact_col
                                                 ELSE a.df_2_fuzzy_col.val,
                            !.cols_to_merge = Append(cols, "match_string")]
                 /\ caller' = IF a.cols_to_merge.none THEN caller
                              ELSE [caller EXCEPT !.cols_to_merge =
                                        Given(Append(cols, "match_string"))]
                 /\ UNCHANGED ads_err
    /\ UNCHANGED <<report, matchVars, fuzzyVars, normVars>>

\* lines 171-178: the exact pass, the overall and the fuzzy flag of df_1
\* set to False, and the rows of df_1 the exact pass has flagged
AdsExact ==
    /\ ads_pc = "exact"
    /\ LET r == identify_match_multi_cols(ma.df_1, ma.df_2, ma.cols_to_merge,
                                          ma.cols_to_merge, "matched_exact",
                                          NoneArg, probes_columns)
           d1 == SetScalar(SetScalar(r.df_1, "boosted", FALSE),
                           "matched_fuzzy_df1?", FALSE)
       IN IF r.err # ""
            THEN /\ ads_pc' = "raised"
                 /\ ads_err' = r.err
                 /\ ma' = [ma EXCEPT !.ncompare = @ + r.n]
            ELSE /\ ads_pc' = "strings"
                 /\ ma' = [ma EXCEPT !.df_1 = d1, !.df_2 = r.df_2,
                                     !.df_1_match = RowsWhere(d1, "matched_exact_df1?", TRUE),
                                     !.ncompare = @ + r.n]
                 /\ UNCHANGED ads_err
    /\ UNCHANGED <<caller, report, matchVars, fuzzyVars, normVars>>

\* lines 187-199: the match strings of the fuzzy columns, the rows of df_1
\* the exact pass has not flagged, the unique strings of both sides, and
\* the call best_fuzzy_match(..., 80, pickle_name)
AdsStrings ==
    /\ ads_pc = "strings"
    /\ LET d1 == MatchStrings(ma.df_1, ma.df_1_fuzzy_col, FALSE)
           d2 == MatchStrings(ma.df_2, ma.df_2_fuzzy_col, FALSE)
           no_match == RowsWhere(d1, "matched_exact_df1?", FALSE)
       IN IF ma.df_1_fuzzy_col \notin ma.df_1.cols
               \/ ma.df_2_fuzzy_col \notin ma.df_2.cols
            THEN /\ ads_pc' = "raised"
                 /\ ads_err' = "KeyError"
                 /\ UNCHANGED <<ma, fuzzyVars>>
            ELSE /\ ads_pc' = "fuzzy"
                 /\ ma' = [ma EXCEPT !.df_1 = d1, !.df_2 = d2,
                                     !.df_1_no_match = no_match]
                 /\ Enter(1, UniqueList(no_match, "match_string"),
                          UniqueList(d2, "match_string"), FuzzyThreshold,
                          ma.args.pickle_name)
                 /\ UNCHANGED <<ads_err, again, prev_result>>
    /\ UNCHANGED <<caller, report, matchVars, normVars>>

\* line 199: what best_fuzzy_match raises is not caught
AdsFuzzyRaised ==
    /\ ads_pc = "fuzzy"
    /\ pc[1] = "raised"
    /\ ads_pc' = "raised"
    /\ ads_err' = err[1]
    /\ UNCHANGED <<caller, ma, report, matchVars, fuzzyVars, normVars>>

\* lines 199-217: the mapping returned, the match string of the unflagged
\* rows replaced by what it is mapped to, the fuzzy pass, the two parts of
\* df_1 put together again and the overall columns
AdsFuzzyPass ==
    /\ ads_pc = "fuzzy"
    /\ pc[1] = "returned"
    /\ LET mapped == MapStrings(ma.df_1_no_match, best_match_dict[1])
           r == identify_match_multi_cols(mapped, ma.df_2, ma.cols_to_merge,
                                          ma.cols_to_merge, "matched_fuzzy",
                                          NoneArg, probes_columns)
           concat == Concat(ma.df_1_match, r.df_1)
       IN IF r.err # ""
            THEN /\ ads_pc' = "raised"
                 /\ ads_err' = r.err
                 /\ ma' = [ma EXCEPT !.ncompare = @ + r.n]
            ELSE /\ ads_pc' = "report"
                 /\ ma' = [ma EXCEPT
                            !.df_1_no_match = r.df_1,
                            !.df_1 = Boosted(concat, "matched_exact_df1?",
                                             "matched_fuzzy_df1?"),
                            !.df_2 = Boosted(r.df_2, "matched_exact_df2?",
                                             "matched_fuzzy_df2?"),
                            !.ncompare = @ + r.n]
                 /\ UNCHANGED ads_err
    /\ UNCHANGED <<caller, report, matchVars, fuzzyVars, normVars>>

\* lines 219-230: the percentages logged, and the return of df_1 and df_2
AdsReport ==
    /\ ads_pc = "report"
    /\ report' = <<Perc(ma.df_1, "matched_exact_df1?"),
                   Perc(ma.df_1, "matched_fuzzy_df1?"),
                   Perc(ma.df_2, "matched_exact_df2?"),
                   Perc(ma.df_2, "matched_fuzzy_df2?"),
                   Perc(ma.df_1, "boosted"),
                   Perc(ma.df_2, "boosted")>>
    /\ ads_pc' = "returned"
    /\ UNCHANGED <<caller, ma, ads_err, matchVars, fuzzyVars, normVars>>

\* lines 223-228 on a frame with no row, when sum() gives a Python int: the
\* division by df.shape[0] raises
AdsReportRaised ==
    /\ ads_pc = "report"
    /\ Len(ma.df_1.rows) = 0 \/ Len(ma.df_2.rows) = 0
    /\ ads_pc' = "raised"
    /\ ads_err' = "ZeroDivisionError"
    /\ UNCHANGED <<caller, ma, report, matchVars, fuzzyVars, normVars>>

NextAds ==
    \/ AdsCall
    \/ AdsPrepare
    \/ AdsExact
    \/ AdsStrings
    \/ Load(1)
    \/ LoopStep(1)
    \/ Save(1)
    \/ SaveFail(1)
    \/ AdsFuzzyRaised
    \/ AdsFuzzyPass
    \/ AdsReport
    \/ AdsReportRaised

SpecAds == Init /\ [][NextAds]_vars

(***************************************************************************)
(* Properties of best_fuzzy_match.                                         *)
(***************************************************************************)
StrsOf(l) == {l[k] : k \in 1..Len(l)}

\* C1, as stated: in the mapping a call returns, every string of list_1
\* that also occurs in list_2 is mapped to itself.
C1_ExactShortCircuit ==
    \A p \in Procs :
        pc[p] = "returned" =>
            \A s \in StrsOf(list_1[p]) \cap StrsOf(list_2[p]) :
                /\ s \in DOMAIN best_match_dict[p]
                /\ best_match_dict[p][s] = s

\* C1, amended: in the mapping a call returns, every non-empty string of
\* list_1 that also occurs in list_2 is mapped to itself, whatever the
\* threshold and whatever the loaded cache holds for it.
C1_ExactShortCircuitNonEmpty ==
    \A p \in Procs :
        pc[p] = "returned" =>
            \A s \in (StrsOf(list_1[p]) \cap StrsOf(list_2[p])) \ {EmptyStr} :
                /\ s \in DOMAIN best_match_dict[p]
                /\ best_match_dict[p][s] = s

\* a call has returned with a non-empty string in both lists for which the
\* loaded cache held another value
C1_Witness ==
    \E p \in Procs :
        /\ pc[p] = "returned"
        /\ \E s \in (StrsOf(list_1[p]) \cap StrsOf(list_2[p])) \ {EmptyStr} :
               /\ s \in DOMAIN stored_best_dict[p]
               /\ stored_best_dict[p][s] # s

\* C2: no call ends in an error raised while resolving a string, and in the
\* mapping a call returns every string of list_1 is a key whose value is an
\* element of this call's list_2 or 'None'.
C2_TotalResolution ==
    \A p \in Procs :
        /\ err[p] # "ValueError"
        /\ pc[p] = "returned" =>
               \A s \in StrsOf(list_1[p]) :
                   /\ s \in DOMAIN best_match_dict[p]
                   /\ best_match_dict[p][s] \in StrsOf(list_2[p]) \cup {NoneStr}

\* what C3 says string_1 is mapped to: 'None' when every clamped score is 0,
\* otherwise the first element of list_2 with the greatest clamped score
C3_Expected(string_1, l2, t) ==
    LET sc(k) == IF fuzz_ratio(string_1, l2[k]) < t THEN 0
                 ELSE fuzz_ratio(string_1, l2[k])
    IN IF \A k \in 1..Len(l2) : sc(k) = 0 THEN NoneStr
       ELSE l2[CHOOSE k \in 1..Len(l2) :
                   /\ \A j \in 1..Len(l2) : sc(j) <= sc(k)
                   /\ \A j \in 1..(k - 1) : sc(j) < sc(k)]

\* the positions of list_1 that hold a string C3 is about
C3_Positions(p) ==
    {k \in 1..Len(list_1[p]) :
        /\ list_1[p][k] # EmptyStr
        /\ ~InList(list_1[p][k], list_2[p])
        /\ list_1[p][k] \notin DOMAIN stored_best_dict[p]}

\* C3: a non-empty string of list_1 that is neither in list_2 nor a key of
\* the loaded cache is mapped to the first element of list_2 with the
\* greatest clamped score, or to 'None' when every clamped score is 0; the
\* loop does not fail on it.
C3_BestScoreSelection ==
    \A p \in Procs :
        \A k \in C3_Positions(p) :
            /\ ~(k = i[p] + 1 /\ err[p] = "ValueError")
            /\ k <= i[p] =>
                   best_match_dict[p][list_1[p][k]] =
                       C3_Expected(list_1[p][k], list_2[p], threshold[p])

\* what holds of C3: every such string the loop has got past is mapped as
\* C3 says (with an empty list_2 the loop does not get past it)
BestScoreSelectionOnResolved ==
    \A p \in Procs :
        \A k \in C3_Positions(p) :
            k <= i[p] =>
                best_match_dict[p][list_1[p][k]] =
                    C3_Expected(list_1[p][k], list_2[p], threshold[p])

\* run p has taken the step
Acted(p) == pc'[p] # pc[p] \/ i'[p] # i[p]

\* C4: once a cache file holds an entry for a string, the file still holds
\* an entry for it after any later run on that json_name has saved.
C4_EntriesKept ==
    [][\A p \in Procs :
           (pc[p] = "save" /\ pc'[p] = "returned" /\ UsesStore(json_name[p])
                /\ store[json_name[p]].kind = "dict") =>
               /\ store'[json_name[p]].kind = "dict"
               /\ DOMAIN store[json_name[p]].dict
                      \subseteq DOMAIN store'[json_name[p]].dict]_vars

C6_LastWriterWins ==
    \A p, q \in Procs :
        (/\ p # q
         /\ pc[p] = "returned" /\ pc[q] = "returned"
         /\ json_name[p] = json_name[q] /\ json_name[q] # NoStore
         /\ raced[q]) =>
            /\ store[json_name[q]] = DictFile(best_match_dict[q])
            /\ \A s \in DOMAIN best_match_dict[p] \ DOMAIN best_match_dict[q] :
                   s \notin DOMAIN store[json_name[q]].dict

\* two such runs have returned and the run that saved first had an entry,
\* with a match, that the other has not
C6_Witness ==
    \E p, q \in Procs :
        /\ p # q
        /\ pc[p] = "returned" /\ pc[q] = "returned"
        /\ json_name[p] = json_name[q] /\ json_name[q] # NoStore
        /\ raced[q]
        /\ \E s \in DOMAIN best_match_dict[p] \ DOMAIN best_match_dict[q] :
               best_match_dict[p][s] # NoneStr

\* C7: a call whose cache write fails writes a second time and does not
\* raise.
C7_WriteFailureRecovered ==
    \A p \in Procs :
        err[p] = "OSError" =>
            /\ pc[p] # "raised"
            /\ nwrite[p] = 2

\* C8: a call that finds no cache file, or one that cannot be parsed, goes
\* on with an empty cache, does not raise for it, and returns a mapping
\* with an entry for every string of list_1.
C8_ReadFailureTolerated ==
    \A p \in Procs :
        cache_seen[p] \in {"absent", "corrupt"} =>
            /\ err[p] # "JSONDecodeError"
            /\ stored_best_dict[p] = EmptyDict
            /\ pc[p] = "returned" =>
                   StrsOf(list_1[p]) \subseteq DOMAIN best_match_dict[p]

\* C9: a step of a run whose json_name is 'NoStore' leaves every cache file
\* as it was, and the cache the run uses is empty.
C9_NoStoreFrame ==
    [][\A p \in Procs :
           (Acted(p) /\ json_name'[p] = NoStore) =>
               /\ store' = store
               /\ stored_best_dict'[p] = EmptyDict
               /\ nread'[p] = 0 /\ nwrite'[p] = 0]_vars

\* a 'NoStore' run has returned 'None' for a string that the file stored
\* under the name NoStore maps to a match, while another cache file exists
C9_Witness ==
    \E p \in Procs :
        /\ pc[p] = "returned"
        /\ json_name[p] = NoStore
        /\ store[NoStore].kind = "dict"
        /\ \E ns \in Namespaces \ {NoStore} : store[ns].kind = "dict"
        /\ \E s \in StrsOf(list_1[p]) \cap DOMAIN store[NoStore].dict :
               /\ best_match_dict[p][s] = NoneStr
               /\ store[NoStore].dict[s] # NoneStr

\* thresholds on every side of the scores fuzz.ratio gives on the strings
\* of the model (0, 67 and 100)
ProbeThresholds == {0, 1, 60, 67, 68, 70, 100}

\* the strings a mapping gives a match
MatchSet(d) == {s \in DOMAIN d : d[s] # NoneStr}

\* C10: with list_1, list_2 and the loaded cache fixed, the strings matched
\* at a higher threshold are among the strings matched at a lower one.
C10_ThresholdMonotone ==
    \A p \in Procs :
        pc[p] = "returned" =>
            \A t \in ProbeThresholds :
                LET r == ForLoop(list_1[p], list_2[p], t, stored_best_dict[p], EmptyDict)
                IN /\ ~r.raise
                   /\ t > threshold[p] =>
                          MatchSet(r.dict) \subseteq MatchSet(best_match_dict[p])
                   /\ t < threshold[p] =>
                          MatchSet(best_match_dict[p]) \subseteq MatchSet(r.dict)

\* a call has returned a match that a higher threshold would not give
C10_Witness ==
    \E p \in Procs :
        /\ pc[p] = "returned"
        /\ \E t \in ProbeThresholds :
               /\ t > threshold[p]
               /\ MatchSet(ForLoop(list_1[p], list_2[p], t, stored_best_dict[p],
                                   EmptyDict).dict)
                      # MatchSet(best_match_dict[p])

\* the string run p resolves in its next iteration
NextString(p) == list_1[p][i[p] + 1]

\* the iteration has written value for the string and computed n scores
Resolved(p, value, n) ==
    /\ pc'[p] # "raised"
    /\ i'[p] = i[p] + 1
    /\ best_match_dict'[p][NextString(p)] = value
    /\ nratio'[p] = nratio[p] + n

\* the iteration has scored the string against every string of list_2, or
\* has failed doing so
ScoredStep(p) ==
    \/ pc'[p] = "raised" /\ err'[p] = "ValueError"
    \/ /\ Resolved(p, best_match_dict'[p][NextString(p)], Len(list_2[p]))
       /\ best_match_dict'[p][NextString(p)] \in StrsOf(list_2[p]) \cup {NoneStr}

\* C24: every iteration of the loop resolves its string by the first rule
\* that applies: '' gives 'None' with no score computed, also when '' is in
\* list_2 or a key of the loaded cache; else a string of list_2 gives itself
\* with no score computed, also when the loaded cache has another value for
\* it; else a key of the loaded cache gives the cached value with no score
\* computed; and only otherwise is the string scored against list_2.
C24_RulePrecedence ==
    [][\A p \in Procs :
          (pc[p] = "loop" /\ Acted(p)) =>
              IF NextString(p) = EmptyStr
                  THEN Resolved(p, NoneStr, 0)
              ELSE IF InList(NextString(p), list_2[p])
                  THEN Resolved(p, NextString(p), 0)
              ELSE IF NextString(p) \in DOMAIN stored_best_dict[p]
                  THEN Resolved(p, stored_best_dict[p][NextString(p)], 0)
              ELSE ScoredStep(p)]_vars

\* the loop of a run is over: '' was in list_1, in list_2 and a key of the
\* loaded cache and is mapped to 'None', and a string of list_1 that is in
\* list_2 and has another value in the loaded cache is mapped to itself
C24_Witness ==
    /\ pc[1] \in {"save", "returned"}
    /\ InList(EmptyStr, list_1[1])
    /\ InList(EmptyStr, list_2[1])
    /\ EmptyStr \in DOMAIN stored_best_dict[1]
    /\ best_match_dict[1][EmptyStr] = NoneStr
    /\ \E s \in StrsOf(list_1[1]) \cap StrsOf(list_2[1]) :
           /\ s \in DOMAIN stored_best_dict[1]
           /\ stored_best_dict[1][s] # s
           /\ best_match_dict[1][s] = s

\* C25: a run on a json_name other than 'NoStore' reads the cache at most
\* once and before its first iteration, writes nothing before its last
\* iteration is over, and when it has ended it has been through all of
\* list_1 and has written the cache exactly once; the mapping it returns is
\* the mapping written and has an entry for every string of list_1.
C25_SingleDeferredWrite ==
    \A p \in Procs :
        (pc[p] # "idle" /\ json_name[p] # NoStore) =>
            /\ nread[p] <= 1
            /\ pc[p] = "load" => nread[p] = 0 /\ i[p] = 0
            /\ pc[p] \in {"load", "loop"} => nwrite[p] = 0
            /\ Ended(p) => nwrite[p] = 1 /\ i[p] = Len(list_1[p])
            /\ pc[p] = "returned" =>
                   /\ store[json_name[p]] = DictFile(best_match_dict[p])
                   /\ DOMAIN best_match_dict[p] = StrsOf(list_1[p])

\* the cache file of run p as the run found it when it loaded
FileAtLoad(p) ==
    IF cache_seen[p] = "absent" THEN Absent ELSE DictFile(stored_best_dict[p])

\* run p has raised in its loop
RaisedInLoop(p) == pc[p] = "raised" /\ err[p] = "ValueError"

\* C29: a run on a json_name other than 'NoStore' that is in its loop, or
\* has raised in it, has written nothing, and the cache file is what the
\* run found when it loaded.
C29_CacheUnchangedOnFailure ==
    \A p \in Procs :
        (json_name[p] # NoStore /\ (pc[p] = "loop" \/ RaisedInLoop(p))) =>
            /\ nwrite[p] = 0
            /\ store[json_name[p]] = FileAtLoad(p)

\* a run has raised in its loop after it has resolved a string, and the
\* cache file holds the mapping of an earlier run
C29_Witness ==
    /\ RaisedInLoop(1)
    /\ json_name[1] # NoStore
    /\ i[1] >= 1
    /\ DOMAIN best_match_dict[1] # {}
    /\ store[json_name[1]].kind = "dict"
    /\ store[json_name[1]].dict # best_match_dict[1]

(***************************************************************************)
(* Properties of identify_match_multi_cols.                                *)
(***************************************************************************)
RowsOf(df) == 1..Len(df.rows)
KeyPositions == 1..Len(df_1_cols_to_match)
SameArity == Len(df_1_cols_to_match) = Len(df_2_cols_to_match)

\* the cell of row k of df under position n of the key list cols
KeyCell(df, k, cols, n) == df.rows[k][cols[n]]

\* row r of the frame a is in the frame b as C11 defines it: one row t of b
\* satisfies every key position
C11_Member(a, r, acols, b, bcols) ==
    \E t \in RowsOf(b) :
        \A n \in KeyPositions :
            \/ /\ KeyCell(b, t, bcols, n) = KeyCell(a, r, acols, n)
               /\ KeyCell(a, r, acols, n) \notin StrsOf(exclude_values)
            \/ /\ KeyCell(b, t, bcols, n) = NaN
               /\ KeyCell(a, r, acols, n) = NaN

\* C11: when a call with key lists of one length has returned, the
\* 'match_df1?' flag of every row of df_1 is True exactly when one single row
\* of df_2 satisfies every key position (equal and not excluded, or both
\* null), and the 'match_df2?' flags of df_2 likewise with the roles swapped.
C11_CompositeKeyMembership ==
    (match_pc = "returned" /\ SameArity) =>
        /\ \A r \in RowsOf(df_1) :
               df_1.rows[r]["match_df1?"] =
                   C11_Member(df_1, r, df_1_cols_to_match, df_2, df_2_cols_to_match)
        /\ \A r \in RowsOf(df_2) :
               df_2.rows[r]["match_df2?"] =
                   C11_Member(df_2, r, df_2_cols_to_match, df_1, df_1_cols_to_match)

\* a call on two key columns has returned with a row of df_1 flagged, and
\* with a row of df_1 not flagged although each of its key cells is equal to
\* the cell of some row of df_2
C11_Witness ==
    /\ match_pc = "returned"
    /\ Len(df_1_cols_to_match) = 2
    /\ \E r \in RowsOf(df_1) : df_1.rows[r]["match_df1?"]
    /\ \E r \in RowsOf(df_1) :
           /\ ~df_1.rows[r]["match_df1?"]
           /\ \A n \in KeyPositions :
                  /\ KeyCell(df_1, r, df_1_cols_to_match, n) \notin
                         StrsOf(exclude_values) \cup {NaN}
                  /\ \E t \in RowsOf(df_2) :
                         KeyCell(df_2, t, df_2_cols_to_match, n) =
                             KeyCell(df_1, r, df_1_cols_to_match, n)

\* the rows of df whose cell under some key column is an excluded value
C12_Vetoed(df, cols) ==
    {r \in RowsOf(df) :
        \E n \in 1..Len(cols) : KeyCell(df, r, cols, n) \in StrsOf(exclude_values)}

\* C12: a row with an excluded value in a key column is never flagged, in
\* df_1 or in df_2, whatever the other frame holds.
C12_ExcludedValueVeto ==
    /\ "match_df1?" \in df_1.cols =>
           \A r \in C12_Vetoed(df_1, df_1_cols_to_match) : ~df_1.rows[r]["match_df1?"]
    /\ "match_df2?" \in df_2.cols =>
           \A r \in C12_Vetoed(df_2, df_2_cols_to_match) : ~df_2.rows[r]["match_df2?"]

\* a call with the default exclude_values has returned, for a row of df_1
\* holding an excluded value in a key column and a row of df_2 equal to it in
\* every key column
C12_Witness ==
    /\ match_pc = "returned"
    /\ SameArity
    /\ exclude_values = DefaultExclude
    /\ \E r \in C12_Vetoed(df_1, df_1_cols_to_match) :
           \E t \in RowsOf(df_2) :
               \A n \in KeyPositions :
                   KeyCell(df_2, t, df_2_cols_to_match, n) =
                       KeyCell(df_1, r, df_1_cols_to_match, n)

\* the key cells of row r of a are null at the positions where those of row
\* t of b are
C13_NullAligned(a, r, acols, b, t, bcols) ==
    \A n \in KeyPositions :
        (KeyCell(a, r, acols, n) = NaN) = (KeyCell(b, t, bcols, n) = NaN)

\* every key cell of row r of a is null
C13_AllNull(a, r, acols) ==
    \A n \in 1..Len(acols) : KeyCell(a, r, acols, n) = NaN

\* the flags of a are as C13 says given the frame b
C13_Side(a, flag, acols, b, bcols) ==
    \A r \in RowsOf(a) :
        /\ a.rows[r][flag] =>
               \E t \in RowsOf(b) : C13_NullAligned(a, r, acols, b, t, bcols)
        /\ C13_AllNull(a, r, acols) =>
               (a.rows[r][flag] = \E t \in RowsOf(b) : C13_AllNull(b, t, bcols))

\* C13: when a call has returned, a flagged row has a row of the other frame
\* that is null in exactly the key columns where it is null itself (null
\* matches neither a non-null value nor the reverse), and a row whose key
\* cells are all null is flagged exactly when the other frame has such a row.
C13_NullHandling ==
    (match_pc = "returned" /\ SameArity) =>
        /\ C13_Side(df_1, "match_df1?", df_1_cols_to_match, df_2, df_2_cols_to_match)
        /\ C13_Side(df_2, "match_df2?", df_2_cols_to_match, df_1, df_1_cols_to_match)

\* a call has returned with a row of df_1 that has a null key cell flagged,
\* and a row of df_2 whose key cells are not null not flagged
C13_Witness ==
    /\ match_pc = "returned"
    /\ Len(df_1_cols_to_match) > 0
    /\ \E r \in RowsOf(df_1) :
           /\ df_1.rows[r]["match_df1?"]
           /\ \E n \in KeyPositions : KeyCell(df_1, r, df_1_cols_to_match, n) = NaN
    /\ \E t \in RowsOf(df_2) :
           /\ ~df_2.rows[t]["match_df2?"]
           /\ \A n \in KeyPositions : KeyCell(df_2, t, df_2_cols_to_match, n) # NaN

\* C17: a call with key lists of different lengths raises before a cell is
\* compared and before a flag column is added to either frame.
C17_ArityMismatchFailsFast ==
    (~SameArity /\ match_pc \notin {"idle", "df1"}) =>
        /\ match_pc = "raised"
        /\ ncompare = 0
        /\ "match_df1?" \notin df_1.cols
        /\ "match_df2?" \notin df_2.cols

\* the frame of the one row t of b
OneRow(b, t) == [cols |-> b.cols, rows |-> <<b.rows[t]>>]

\* row r of the frame a satisfies the conditions of lines 252-255 against
\* row t of the frame b
Satisfies(a, r, acols, b, t, bcols) ==
    is_row_in_dataframe(a.rows[r], OneRow(b, t), acols, bcols, exclude_values).val

\* the call with the two frames, as they were passed, and their key lists
\* in each other's place
Swapped ==
    identify_match_multi_cols(WithoutColumn(df_2, "match_df2?"),
                              WithoutColumn(df_1, "match_df1?"),
                              df_2_cols_to_match, df_1_cols_to_match, "match",
                              Given(exclude_values), probes_columns)

\* C30: when a call has returned, a row of df_1 satisfies the conditions
\* against a row of df_2 exactly when that row satisfies them against it,
\* the call with the frames and their key lists swapped gives every row the
\* flag it has, and df_1 has a flagged row exactly when df_2 has one.
C30_MembershipSymmetric ==
    match_pc = "returned" =>
        /\ \A r \in RowsOf(df_1), t \in RowsOf(df_2) :
               Satisfies(df_1, r, df_1_cols_to_match, df_2, t, df_2_cols_to_match)
                   = Satisfies(df_2, t, df_2_cols_to_match, df_1, r, df_1_cols_to_match)
        /\ Swapped.err = ""
        /\ \A r \in RowsOf(df_1) :
               Swapped.df_2.rows[r]["match_df2?"] = df_1.rows[r]["match_df1?"]
        /\ \A t \in RowsOf(df_2) :
               Swapped.df_1.rows[t]["match_df1?"] = df_2.rows[t]["match_df2?"]
        /\ (\E r \in RowsOf(df_1) : df_1.rows[r]["match_df1?"])
               = (\E t \in RowsOf(df_2) : df_2.rows[t]["match_df2?"])

\* a call on two key columns has returned with a flagged and an unflagged
\* row in each frame, one of the unflagged rows having a null key cell
C30_Witness ==
    /\ match_pc = "returned"
    /\ Len(df_1_cols_to_match) = 2
    /\ \E r, q \in RowsOf(df_1) :
           df_1.rows[r]["match_df1?"] /\ ~df_1.rows[q]["match_df1?"]
    /\ \E t, u \in RowsOf(df_2) :
           /\ df_2.rows[t]["match_df2?"]
           /\ ~df_2.rows[u]["match_df2?"]
           /\ \E n \in KeyPositions : isna(KeyCell(df_2, u, df_2_cols_to_match, n))

(***************************************************************************)
(* Properties of match_ads.                                                *)
(***************************************************************************)
\* C14: when match_ads has returned, the overall column of every row of the
\* returned df_1 is the disjunction of its exact and its fuzzy flag, and so
\* is that of every row of the returned df_2 with the flags of df_2.
C14_MatchCompleteness ==
    ads_pc = "returned" =>
        /\ \A r \in RowsOf(ma.df_1) :
               ma.df_1.rows[r]["boosted"] =
                   (ma.df_1.rows[r]["matched_exact_df1?"]
                        \/ ma.df_1.rows[r]["matched_fuzzy_df1?"])
        /\ \A r \in RowsOf(ma.df_2) :
               ma.df_2.rows[r]["boosted"] =
                   (ma.df_2.rows[r]["matched_exact_df2?"]
                        \/ ma.df_2.rows[r]["matched_fuzzy_df2?"])

\* match_ads has returned a df_1 with a row flagged by the exact pass alone
\* and a row flagged by the fuzzy pass alone, and a df_2 with a row that
\* neither pass has flagged
C14_Witness ==
    /\ ads_pc = "returned"
    /\ \E r \in RowsOf(ma.df_1) :
           /\ ma.df_1.rows[r]["matched_exact_df1?"]
           /\ ~ma.df_1.rows[r]["matched_fuzzy_df1?"]
    /\ \E r \in RowsOf(ma.df_1) :
           /\ ~ma.df_1.rows[r]["matched_exact_df1?"]
           /\ ma.df_1.rows[r]["matched_fuzzy_df1?"]
    /\ \E r \in RowsOf(ma.df_2) :
           /\ ~ma.df_2.rows[r]["matched_exact_df2?"]
           /\ ~ma.df_2.rows[r]["matched_fuzzy_df2?"]

\* the columns the call needs: the exact column, the fuzzy column when one
\* is named, and the grouping columns
RequiredCols ==
    {ma.args.df_1_exact_col}
        \cup (IF ma.args.df_1_fuzzy_col.none THEN {} ELSE {ma.args.df_1_fuzzy_col.val})
        \cup (IF ma.args.cols_to_merge.none THEN {"platform"}
              ELSE StrsOf(ma.args.cols_to_merge.val))

\* a call is in progress or over, and a column it needs is absent from a
\* frame passed
MissingColumn ==
    /\ ads_pc # "idle"
    /\ ~(RequiredCols \subseteq ma.args.df_1.cols \cap ma.args.df_2.cols)

NoRows(df) == Len(df.rows) = 0

ZeroPerc == [nan |-> FALSE, val |-> 0]

\* C15: a call with every column present and no row in df_1 or in df_2
\* does not raise, and when it has returned every row of df_1 has both
\* flags False and every percentage logged is 0.
C15_EmptyDataset ==
    (/\ ads_pc # "idle"
     /\ ~MissingColumn
     /\ NoRows(ma.args.df_1) \/ NoRows(ma.args.df_2)) =>
        /\ ads_pc # "raised"
        /\ ads_pc = "returned" =>
               /\ \A r \in RowsOf(ma.df_1) :
                      /\ ~ma.df_1.rows[r]["matched_exact_df1?"]
                      /\ ~ma.df_1.rows[r]["matched_fuzzy_df1?"]
               /\ \A k \in 1..Len(report) : report[k] = ZeroPerc

\* C16: a call with a needed column absent from df_1 or df_2 gets no
\* further than the first cell of the exact pass: it compares no row, makes
\* no call of best_fuzzy_match and returns nothing.
C16_MissingColumnFailsFast ==
    MissingColumn =>
        /\ ads_pc \in {"prepare", "exact", "raised"}
        /\ ma.ncompare = 0
        /\ pc[1] = "idle"

\* C18: when match_ads has returned, the frames the caller passed and the
\* list the caller passed as cols_to_merge are as they were at the call.
C18_InputsNotMutated ==
    ads_pc = "returned" =>
        /\ caller.df_1 = ma.args.df_1
        /\ caller.df_2 = ma.args.df_2
        /\ caller.cols_to_merge = ma.args.cols_to_merge

\* a call whose exact column holds links
Linked == ads_pc # "idle" /\ ma.args.is_exact_col_link

\* the match strings of the exact pass are in place
ExactStrings == ads_pc \in {"exact", "strings"}

\* the exact pass is over
ExactDone == ads_pc \in {"strings", "fuzzy", "report", "returned"}

\* with links in the exact column: two rows whose urls agree up to the first
\* '?' have the same match string, the match string of both links is
\* normal, and a row of df_1 with the link that has the query string, on FB,
\* is flagged by the exact pass when df_2 has a row with the plain link on FB
UrlAwareExactMatch(normal) ==
    /\ (Linked /\ ExactStrings) =>
           /\ \A r \in RowsOf(ma.df_1), t \in RowsOf(ma.df_2) :
                  split_question(ma.df_1.rows[r]["url"])
                          = split_question(ma.df_2.rows[t]["url"])
                      => ma.df_1.rows[r]["match_string"]
                             = ma.df_2.rows[t]["match_string"]
           /\ \A r \in RowsOf(ma.df_1) :
                  ma.df_1.rows[r]["url"] = UrlUtm
                      => ma.df_1.rows[r]["match_string"] = normal
           /\ \A t \in RowsOf(ma.df_2) :
                  ma.df_2.rows[t]["url"] = UrlPlain
                      => ma.df_2.rows[t]["match_string"] = normal
    /\ (Linked /\ ExactDone) =>
           \A r \in RowsOf(ma.df_1) :
               (/\ ma.df_1.rows[r]["url"] = UrlUtm
                /\ ma.df_1.rows[r]["platform"] = FB
                /\ \E t \in RowsOf(ma.df_2) :
                       /\ ma.df_2.rows[t]["url"] = UrlPlain
                       /\ ma.df_2.rows[t]["platform"] = FB)
                   => ma.df_1.rows[r]["matched_exact_df1?"]

\* C21 as stated: with is_url=True the text from the first '?' on does not
\* change the match string, 'http://x.com/a?utm=1' and 'http://x.com/a' both
\* give 'xcoma', and the df_1 row with the first link on FB is flagged by
\* the exact pass against a df_2 row with the second link on FB.
C21_UrlAwareExactMatch ==
    UrlAwareExactMatch(<<"x", "c", "o", "m", "a">>)

\* C21 amended: the same, with 'httpxcoma' as the match string of both
\* links: only the punctuation of the scheme is removed, its letters stay.
C21_UrlAwareExactMatchScheme ==
    UrlAwareExactMatch(<<"h", "t", "t", "p", "x", "c", "o", "m", "a">>)

\* the exact pass is over on links, and a df_1 row with the link that has
\* the query string has the match string 'httpxcoma' and is flagged against
\* a df_2 row with the plain link
C21_Witness ==
    /\ Linked
    /\ ads_pc = "strings"
    /\ \E r \in RowsOf(ma.df_1), t \in RowsOf(ma.df_2) :
           /\ ma.df_1.rows[r]["url"] = UrlUtm
           /\ ma.df_2.rows[t]["url"] = UrlPlain
           /\ ma.df_1.rows[r]["match_string"]
                  = <<"h", "t", "t", "p", "x", "c", "o", "m", "a">>
           /\ ma.df_1.rows[r]["match_string"] = ma.df_2.rows[t]["match_string"]
           /\ ma.df_1.rows[r]["matched_exact_df1?"]

\* the fuzzy pass is over
FuzzyDone == ads_pc \in {"report", "returned"}

\* the match string of the fuzzy pass of a row
FuzzyString(row) == prepare_string_matching(row[ma.df_1_fuzzy_col], FALSE)

\* the row of df_1 went through the fuzzy pass, and best_fuzzy_match has
\* mapped its match string to 'None'
MappedToNone(row) ==
    /\ ~row["matched_exact_df1?"]
    /\ best_match_dict[1][FuzzyString(row)] = NoneStr

\* C23: when the fuzzy pass is over, every row of df_1 whose match string
\* best_fuzzy_match has mapped to 'None' has matched_fuzzy_df1? False,
\* whatever the rows of df_2.
C23_NoMatchStaysUnmatched ==
    FuzzyDone =>
        \A r \in RowsOf(ma.df_1) :
            MappedToNone(ma.df_1.rows[r]) => ~ma.df_1.rows[r]["matched_fuzzy_df1?"]

\* match_ads has returned a df_1 with a row mapped to 'None', on the
\* platform of a row of df_2 whose own match string is 'None'
C23_Witness ==
    /\ ads_pc = "returned"
    /\ \E r \in RowsOf(ma.df_1), t \in RowsOf(ma.df_2) :
           /\ MappedToNone(ma.df_1.rows[r])
           /\ FuzzyString(ma.df_1.rows[r]) # EmptyStr
           /\ ma.df_2.rows[t]["match_string"] = NoneStr
           /\ ma.df_2.rows[t]["platform"] = ma.df_1.rows[r]["platform"]
           /\ ~ma.df_1.rows[r]["matched_fuzzy_df1?"]

\* what best_fuzzy_match has mapped the match string of the row to
BestMatch(row) == best_match_dict[1][FuzzyString(row)]

\* df_2 has a row with that match string on the platform of the row
SameKeyInDf2(row) ==
    \E t \in RowsOf(ma.df_2) :
        /\ ma.df_2.rows[t]["match_string"] = BestMatch(row)
        /\ ma.df_2.rows[t]["platform"] = row["platform"]

\* the mapping comes from all the match strings of df_2, whatever their
\* platform
ChosenOverAllOfDf2(row) ==
    /\ list_2[1] = UniqueList(ma.df_2, "match_string")
    /\ BestMatch(row) = Resolve(FuzzyString(row), list_2[1], FuzzyThreshold,
                                stored_best_dict[1]).val

\* C26 as stated: when the fuzzy pass is over, a row of df_1 the exact pass
\* has not flagged has matched_fuzzy_df1? True exactly when df_2 has a row
\* with the row's best-match string and the row's platform, the best-match
\* string being chosen over all the match strings of df_2.
C26_FuzzyCompositeKey ==
    FuzzyDone =>
        \A r \in RowsOf(ma.df_1) :
            ~ma.df_1.rows[r]["matched_exact_df1?"] =>
                /\ ChosenOverAllOfDf2(ma.df_1.rows[r])
                /\ ma.df_1.rows[r]["matched_fuzzy_df1?"]
                       = SameKeyInDf2(ma.df_1.rows[r])

\* C26 amended: the same, for a row whose best-match string and platform
\* are no excluded value ('None', 'none', 'nan', ''); a row with one that
\* is has matched_fuzzy_df1? False.
C26_FuzzyCompositeKeyNotExcluded ==
    FuzzyDone =>
        \A r \in RowsOf(ma.df_1) :
            ~ma.df_1.rows[r]["matched_exact_df1?"] =>
                /\ ChosenOverAllOfDf2(ma.df_1.rows[r])
                /\ ma.df_1.rows[r]["matched_fuzzy_df1?"]
                       = (/\ ~InList(BestMatch(ma.df_1.rows[r]), DefaultExclude)
                          /\ ~InList(ma.df_1.rows[r]["platform"], DefaultExclude)
                          /\ SameKeyInDf2(ma.df_1.rows[r]))

\* match_ads has returned a df_1 with a row the fuzzy pass has not flagged
\* because the only rows of df_2 with the row's best-match string are on
\* another platform
C26_Witness ==
    /\ ads_pc = "returned"
    /\ \E r \in RowsOf(ma.df_1), t \in RowsOf(ma.df_2) :
           /\ ~ma.df_1.rows[r]["matched_exact_df1?"]
           /\ ~InList(BestMatch(ma.df_1.rows[r]), DefaultExclude)
           /\ ma.df_2.rows[t]["match_string"] = BestMatch(ma.df_1.rows[r])
           /\ ma.df_2.rows[t]["platform"] # ma.df_1.rows[r]["platform"]
           /\ ~SameKeyInDf2(ma.df_1.rows[r])
           /\ ~ma.df_1.rows[r]["matched_fuzzy_df1?"]

\* C27: no row of the df_1 that match_ads returns has both
\* matched_exact_df1? and matched_fuzzy_df1? True.
C27_FlagsExclusive ==
    ads_pc = "returned" =>
        \A r \in RowsOf(ma.df_1) :
            ~(ma.df_1.rows[r]["matched_exact_df1?"]
                  /\ ma.df_1.rows[r]["matched_fuzzy_df1?"])

\* match_ads has returned a df_1 with a row the exact pass has flagged and
\* the fuzzy pass has not, although df_2 has its best match on its platform:
\* another row with the same text went through the fuzzy pass and is flagged
C27_Witness ==
    /\ ads_pc = "returned"
    /\ \E r, q \in RowsOf(ma.df_1) :
           /\ ma.df_1.rows[r]["matched_exact_df1?"]
           /\ ~ma.df_1.rows[r]["matched_fuzzy_df1?"]
           /\ ~ma.df_1.rows[q]["matched_exact_df1?"]
           /\ ma.df_1.rows[q]["matched_fuzzy_df1?"]
           /\ ma.df_1.rows[q][ma.df_1_fuzzy_col] = ma.df_1.rows[r][ma.df_1_fuzzy_col]
           /\ ma.df_1.rows[q]["platform"] = ma.df_1.rows[r]["platform"]

\* the row without the columns match_ads has added
AsPassed(row) == [c \in ma.args.df_1.cols |-> row[c]]

\* how many rows of the sequence are the row given
RECURSIVE CountRow(_, _)
CountRow(rows, row) ==
    IF rows = <<>> THEN 0
    ELSE (IF Head(rows) = row THEN 1 ELSE 0) + CountRow(Tail(rows), row)

\* the rows of the df_1 returned, without the columns match_ads has added
ReturnedAsPassed == [r \in RowsOf(ma.df_1) |-> AsPassed(ma.df_1.rows[r])]

\* C28: the df_1 that match_ads returns has every row of the df_1 passed
\* as many times as the df_1 passed has it and no other row, the rows the
\* exact pass has flagged before the others.
C28_RowConservation ==
    ads_pc = "returned" =>
        /\ Len(ma.df_1.rows) = Len(ma.args.df_1.rows)
        /\ \A k \in RowsOf(ma.args.df_1) :
               CountRow(ReturnedAsPassed, ma.args.df_1.rows[k])
                   = CountRow(ma.args.df_1.rows, ma.args.df_1.rows[k])
        /\ \A j, k \in RowsOf(ma.df_1) :
               (j < k /\ ma.df_1.rows[k]["matched_exact_df1?"])
                   => ma.df_1.rows[j]["matched_exact_df1?"]

\* match_ads has returned the two rows of a df_1 in the other order: the
\* exact pass has flagged the second row passed and not the first
C28_Witness ==
    /\ ads_pc = "returned"
    /\ Len(ma.args.df_1.rows) = 2
    /\ ma.args.df_1.rows[1] # ma.args.df_1.rows[2]
    /\ AsPassed(ma.df_1.rows[1]) = ma.args.df_1.rows[2]
    /\ AsPassed(ma.df_1.rows[2]) = ma.args.df_1.rows[1]
    /\ ma.df_1.rows[1]["matched_exact_df1?"]
    /\ ~ma.df_1.rows[2]["matched_exact_df1?"]

(***************************************************************************)
(* Properties of prepare_string_matching.                                  *)
(***************************************************************************)
\* C22: prepare_string_matching gives a result for every argument, in both
\* modes: the null argument itself for a null argument and a string for any
\* other, which is the empty string for the empty string, and for a scalar
\* that is no string the result for the string str() writes it as ('5' for
\* 5, '15' for 1.5, 'true' for True).
C22_NormalizerNeverRaises ==
    /\ Len(prepared) >= 1 =>
           /\ isna(string) => prepared[1] = string
           /\ ~isna(string) =>
                  /\ ~isna(prepared[1])
                  /\ \A k \in 1..Len(prepared[1]) : prepared[1][k] \notin TypeNames
           /\ string = EmptyStr => prepared[1] = EmptyStr /\ ~isna(prepared[1])
           /\ string \in Scalars =>
                  prepared[1] = prepare_string_matching(str_of(string), is_url)
           /\ string = IntFive => prepared[1] = <<"5">>
           /\ string = FloatOneHalf => prepared[1] = <<"1", "5">>
           /\ string = BoolTrue => prepared[1] = <<"t", "r", "u", "e">>

\* prepare_string_matching has been applied to a null argument
C22_Witness ==
    /\ Len(prepared) >= 1
    /\ isna(string)
    /\ prepared[1] = NaN

\* C19: applying prepare_string_matching to its own result, with the same
\* is_url, gives that result again.
C19_NormalizationIdempotence ==
    Len(prepared) = 2 => prepared[2] = prepared[1]

\* C20: the result for an argument that is not null holds no upper-case
\* letter, no whitespace character (space, tab or newline) and no character
\* that is not a word character.
C20_NormalizedAlphabet ==
    (Len(prepared) >= 1 /\ ~isna(string)) =>
        \A k \in 1..Len(prepared[1]) :
            /\ prepared[1][k] \notin UpperCase
            /\ prepared[1][k] \notin Whitespace
            /\ prepared[1][k] \in WordChars

====
